---- MODULE Spec2Model ----
(***************************************************************************)
(* Restaurant feedback system: the admin session (AuthProvider), the role  *)
(* guard (useRoleGuard), the routes of App.tsx, the admin and branch       *)
(* management pages, and the review services of services/firestore.ts     *)
(* with the pages that call them.                                         *)
(*                                                                         *)
(* The specifications share the variables:                                 *)
(*   SpecAuth     - sign-in, admin-record lookup, routing                  *)
(*   SpecAdmins   - the admin management page                              *)
(*   SpecBranches - the branches management page                           *)
(*   SpecReviews  - review submission and the reviews list page            *)
(*   SpecExport   - review submission and the export loop                  *)
(*   SpecStats    - review submission, dashboard and customer statistics   *)
(*   SpecServices - every service operation side by side                   *)
(*   SpecFeedback - the public feedback page: loading and branch choice    *)
(*   SpecTablet   - the feedback form, its submissions and the thank-you   *)
(*                  screen, while branches are switched on and off         *)
(*   SpecSubmit   - submitReview with valid and invalid input              *)
(***************************************************************************)
EXTENDS Integers, Sequences, FiniteSets, TLC

(* ------------------------------ values -------------------------------- *)
\* JavaScript null, for a scalar (string) value
Null == "null"
\* JavaScript null and undefined where an array is expected; arrays are
\* modelled as sets of ids (only membership and emptiness are ever used)
NullList == {"null"}
UndefinedList == {"undefined"}

\* Firebase Auth uids that can sign in
Uids == {"u1", "u2"}
\* every branch document id the store can hand out
BranchIds == {"b1", "b2"}
Roles == {"owner", "manager", "viewer"}

\* a value of the admins collection: role plus branchIds (Null when the
\* field is null or absent: NullList)
AdminRecords == [role : Roles, branchIds : {NullList} \cup SUBSET BranchIds]
\* docSnap.exists() is false
NoRecord == [role |-> "none", branchIds |-> NullList]

AdminRoutes == {"overview", "branches", "comparison", "reviews", "customers", "admins"}
Routes == {"feedback", "login"} \cup AdminRoutes

Actions == {"manageAdmins", "manageBranches", "exportReports", "viewReviews"}

\* JavaScript truthiness of a value that is null, undefined or an array
\* (an empty array is truthy)
Truthy(v) == v \notin {NullList, UndefinedList}
\* a || b
Or(a, b) == IF Truthy(a) THEN a ELSE b

\* limit(500) of the getReviews query, scaled down: the query returns at
\* most FetchLimit documents
FetchLimit == 3
\* PAGE_SIZE = 15 of ReviewsList, scaled down (smaller than the query limit)
PAGE_SIZE == 2
\* pageSize: 500 of the export loops: the same number as the query limit
ExportPageSize == FetchLimit
\* the export loop's safety limit of 100000 records, scaled down
ExportLimit == 4
\* reviews kept in the store
MaxReviews == 4
\* reviews kept in the store while an export is watched (above ExportLimit)
MaxExportReviews == 5
\* reviews kept in the store while the statistics are watched
MaxStatsReviews == 3
\* submissions of the feedback form in flight at once
MaxSubmits == 2
\* autoResetSeconds = 5 of ThankYouScreen, scaled down
AutoResetSeconds == 2
\* fetchReviews calls in flight at once
MaxInflight == 2
\* the page counter of ReviewsList (a failed fetch lets it run ahead)
MaxPage == 3
\* server-clock ticks per calendar day
TicksPerDay == 2

\* an option that was not passed (undefined)
UndefinedNum == -1
NoRange == <<>>
\* a missing snapshot cursor (null / undefined lastDoc)
NoDoc == 0

Min(a, b) == IF a < b THEN a ELSE b

\* parseInt on the values of the rating <select>
ParseInt(str) ==
  CASE str = "1" -> 1 [] str = "2" -> 2 [] str = "3" -> 3
    [] str = "4" -> 4 [] str = "5" -> 5

VARIABLES
  \* ---- the store (Firestore collections)
  admins,           \* admins collection: uid -> AdminRecords or NoRecord
  branches,         \* branches collection: id -> "absent" | "active" | "inactive"
  reviews,          \* reviews collection, in insertion order
  clock,            \* server time
  \* ---- AuthProvider state
  user, loading, error, isAdmin, adminRole, allowedBranchIds,
  pendingLookups,   \* uids whose loadAdminData call is in flight
  loginPc,          \* "idle" | "inflight": a loginWithEmail/loginWithGoogle call
  lookupOutcome,    \* how the last completed loadAdminData ended
  lookupRecord,     \* the record that lookup read
  \* ---- router and the management pages
  route,
  pageState,        \* "unmounted" | "loading" | "ready" of the routed page
  pageError,
  adminsList,       \* AdminsManagement: ids of the loaded admin records
  lastCall,         \* the last service call the shown page issued, with the caller's role
  \* ---- review pages
  listFilters, listReviews, listLastDoc, listHasMore, page, pageHistory,
  listLoading,      \* ReviewsList: the loading flag
  listInflight,     \* fetchReviews calls awaiting getReviews
  listLatest,       \* what became of the most recently issued fetchReviews call
  exportPc, exportReviews, exportLastDoc, exportHasMore,
  exportAsOf,       \* number of stored reviews when the export was started
  dashboard, customers,
  \* ---- the public feedback page
  fbState,          \* FeedbackPage pageState
  fbBranches,       \* the Branch objects given to BranchSelector
  fbSelected,       \* selectedBranch: a Branch object or NoBranch
  fbError,
  fbUrl,            \* urlBranchId ("" when the URL has none)
  fbLoads,          \* loadData calls in flight
  formError,        \* FeedbackForm: error
  isSubmitting,     \* FeedbackForm: isSubmitting
  fbSubmits,        \* onSubmit calls awaiting addDoc; `current` marks the
                    \* one issued by the form instance that is mounted
  countdown,        \* ThankYouScreen: countdown (0 while it is not shown)
  submitResult      \* how the last submitReview call ended

authVars == <<user, loading, error, isAdmin, adminRole, allowedBranchIds,
              pendingLookups, loginPc, lookupOutcome, lookupRecord>>
storeVars == <<admins, branches, reviews, clock>>
pageVars == <<route, pageState, pageError, adminsList, lastCall>>
listVars == <<listFilters, listReviews, listLastDoc, listHasMore, page, pageHistory,
              listLoading, listInflight, listLatest>>
exportVars == <<exportPc, exportReviews, exportLastDoc, exportHasMore, exportAsOf>>
statsVars == <<dashboard, customers>>
reviewPageVars == <<listVars, exportVars, statsVars>>
formVars == <<formError, isSubmitting, fbSubmits, countdown>>
fbPageVars == <<fbState, fbBranches, fbSelected, fbError, fbUrl, fbLoads, formVars>>
feedbackVars == <<fbPageVars, submitResult>>
vars == <<storeVars, authVars, pageVars, reviewPageVars, feedbackVars>>

(* --------------------------- services/admin --------------------------- *)
\* getAdmin: the Admin object built from an existing document
getAdmin(rec) ==
  [role |-> rec.role, branchIds |-> Or(rec.branchIds, UndefinedList)]

\* variant: an empty selection is written as null
setAdminDoc_EmptyIsNull(role, branchIds) ==
  [role |-> role, branchIds |-> IF Truthy(branchIds) /\ branchIds # {} THEN branchIds
                                ELSE NullList]

\* the document setAdmin writes (update and create write the same fields)
setAdminDoc(role, branchIds) ==
  [role |-> role, branchIds |-> Or(branchIds, NullList)]

(* ----------------------------- AuthProvider --------------------------- *)
\* variant: a missing branch list resolves to null (all branches)
ResolvedAllowed_NullDefault(admin) ==
  IF admin.role = "owner" THEN NullList ELSE Or(admin.branchIds, NullList)

\* loadAdminData, admin found: the value given to setAllowedBranchIds
ResolvedAllowed(admin) ==
  IF admin.role = "owner" THEN NullList ELSE Or(admin.branchIds, {})

\* loadAdminData, no record or lookup threw; also the signed-out branch of
\* the effect
NoAdmin == [isAdmin |-> FALSE, adminRole |-> Null, allowedBranchIds |-> NullList]

ResolveAdmin(rec) ==
  IF rec = NoRecord THEN NoAdmin
  ELSE [isAdmin |-> TRUE, adminRole |-> getAdmin(rec).role,
        allowedBranchIds |-> ResolvedAllowed(getAdmin(rec))]

(* ----------------------------- useRoleGuard --------------------------- *)
isOwner == isAdmin /\ adminRole = "owner"

isManagerOrOwner == isAdmin /\ adminRole \in {"owner", "manager"}

\* variant: an empty allowed list is read as "no restriction"
canAccessBranch_EmptyIsAll(branchId) ==
  IF ~isAdmin THEN FALSE
  ELSE IF adminRole = "owner" THEN TRUE
  ELSE IF ~Truthy(allowedBranchIds) THEN FALSE
  ELSE allowedBranchIds = {} \/ branchId \in allowedBranchIds

canAccessBranch(branchId) ==
  IF ~isAdmin THEN FALSE
  ELSE IF adminRole = "owner" THEN TRUE
  ELSE IF ~Truthy(allowedBranchIds) THEN FALSE
  ELSE branchId \in allowedBranchIds

\* variant: exportReports granted to every admin
canPerform_ViewerExports(action) ==
  IF ~isAdmin THEN FALSE
  ELSE CASE action = "manageAdmins" -> adminRole = "owner"
         [] action = "manageBranches" -> adminRole = "owner"
         [] action = "exportReports" -> TRUE
         [] action = "viewReviews" -> TRUE
         [] OTHER -> FALSE

canPerform(action) ==
  IF ~isAdmin THEN FALSE
  ELSE CASE action = "manageAdmins" -> adminRole = "owner"
         [] action = "manageBranches" -> adminRole = "owner"
         [] action = "exportReports" -> adminRole \in {"owner", "manager"}
         [] action = "viewReviews" -> TRUE
         [] OTHER -> FALSE

(* ------------------------------- App.tsx ------------------------------ *)
\* ProtectedRoute: what wraps every /admin route
ProtectedRoute ==
  IF loading THEN "spinner"
  ELSE IF user = Null THEN "redirect"
  ELSE "children"

\* where the router ends up: ProtectedRoute's <Navigate to="/login">
Redirect(r, ld, usr) ==
  IF r \in AdminRoutes /\ ~ld /\ usr = Null THEN "login" ELSE r

\* AdminsManagement destructures isOwner from useRoleGuard() and tests
\* `!isOwner` without calling it: the operand is the function object
isOwnerRef == "function"
\* JavaScript `!v` for a value that is a function, a boolean or null
Not(v) == v \in {Null, "false"}
NotIsOwnerRef == Not(isOwnerRef)

\* what the screen shows for the current route
View ==
  IF route \notin AdminRoutes THEN route
  ELSE IF ProtectedRoute # "children" THEN ProtectedRoute
  ELSE IF route = "admins" /\ NotIsOwnerRef THEN "accessDenied"
  ELSE route

\* AdminLayout: the navigation links offered
navItems ==
  {"overview"}
    \cup (IF canPerform("manageBranches") THEN {"branches"} ELSE {})
    \cup (IF canPerform("viewReviews") THEN {"reviews", "customers"} ELSE {})
    \cup (IF canPerform("manageAdmins") THEN {"admins"} ELSE {})

(* ============================ SpecAuth ================================ *)
\* the admin collections a deployment can start from: the first owner is
\* created by hand (PRODUCTION_SETUP.md), other records by hand or by the
\* admin management page
InitAdmins ==
  { [u \in Uids |-> IF u = "u1" THEN [role |-> "owner", branchIds |-> NullList] ELSE r] :
      r \in {NoRecord,
              [role |-> "manager", branchIds |-> NullList],
              [role |-> "viewer", branchIds |-> {"b1"}],
              [role |-> "owner", branchIds |-> {"b1"}]} }

NoCall == [op |-> "none", role |-> Null, lookup |-> "none"]

\* selectedBranch is null
NoBranch == [id |-> Null, isActive |-> FALSE]
\* no submitReview call has been made
NoSubmit == [data |-> [branchId |-> "", rating |-> 0, contact |-> ""], outcome |-> "none"]

\* the state the review pages are mounted with
InitListFilters == [branchId |-> "", selectedRating |-> "", dateRange |-> <<1, MaxReviews>>]
InitDashboard ==
  [loaded |-> FALSE, error |-> Null, dateRange |-> NoRange, asOf |-> 0,
   totals |-> [totalReviews |-> 0, averageRating |-> 0, activeBranches |-> 0],
   branchStats |-> <<>>, dailyStats |-> <<>>, recentReviews |-> <<>>]
InitCustomers ==
  [loaded |-> FALSE, error |-> Null, dateRange |-> NoRange, minReviews |-> 1,
   asOf |-> 0, data |-> <<>>]

InitPages ==
  /\ route = "feedback"
  /\ pageState = "unmounted"
  /\ pageError = Null
  /\ adminsList = {}
  /\ lastCall = NoCall

InitReviewPages ==
  /\ listFilters = InitListFilters
  /\ listReviews = <<>>
  /\ listLastDoc = NoDoc
  /\ listHasMore = FALSE
  /\ page = 1
  /\ pageHistory = <<NoDoc>>
  /\ listLoading = TRUE
  /\ listInflight = {}
  /\ listLatest = "none"
  /\ exportPc = "idle"
  /\ exportReviews = <<>>
  /\ exportLastDoc = NoDoc
  /\ exportHasMore = TRUE
  /\ exportAsOf = 0
  /\ dashboard = InitDashboard
  /\ customers = InitCustomers
  /\ fbState = "loading"
  /\ fbBranches = <<>>
  /\ fbSelected = NoBranch
  /\ fbError = Null
  /\ fbUrl = ""
  /\ fbLoads = {}
  /\ formError = Null
  /\ isSubmitting = FALSE
  /\ fbSubmits = <<>>
  /\ countdown = 0
  /\ submitResult = NoSubmit

InitSession ==
  /\ user = Null
  /\ loading = TRUE
  /\ error = Null
  /\ isAdmin = FALSE
  /\ adminRole = Null
  /\ allowedBranchIds = NullList
  /\ pendingLookups = {}
  /\ loginPc = "idle"
  /\ lookupOutcome = "none"
  /\ lookupRecord = NoRecord

InitAuth ==
  /\ admins \in InitAdmins
  /\ branches = [b \in BranchIds |-> IF b = "b1" THEN "active" ELSE "absent"]
  /\ reviews = <<>>
  /\ clock = 0
  /\ InitSession
  /\ InitPages
  /\ InitReviewPages

\* the effect on [user], signed-out branch, and the state a lookup leaves
\* when it finds nothing or throws
SetSession(s) ==
  /\ isAdmin' = s.isAdmin
  /\ adminRole' = s.adminRole
  /\ allowedBranchIds' = s.allowedBranchIds

\* a route change unmounts the page that was shown: its state is dropped
Goto(r) ==
  /\ route' = r
  /\ IF r = route
       THEN UNCHANGED <<pageState, pageError, adminsList, lastCall, listVars, statsVars,
                        fbPageVars>>
       ELSE /\ pageState' = "unmounted"
            /\ pageError' = Null
            /\ adminsList' = {}
            /\ lastCall' = NoCall
            /\ listFilters' = InitListFilters
            /\ listReviews' = <<>>
            /\ listLastDoc' = NoDoc
            /\ listHasMore' = FALSE
            /\ page' = 1
            /\ pageHistory' = <<NoDoc>>
            /\ listLoading' = TRUE
            /\ listInflight' = {}
            /\ listLatest' = "none"
            /\ dashboard' = InitDashboard
            /\ customers' = InitCustomers
            /\ fbState' = "loading"
            /\ fbBranches' = <<>>
            /\ fbSelected' = NoBranch
            /\ fbError' = Null
            /\ fbUrl' = ""
            /\ fbLoads' = {}
            /\ formError' = Null
            /\ isSubmitting' = FALSE
            /\ fbSubmits' = <<>>
            /\ countdown' = 0

\* onAuthStateChanged fires for the first time (persisted session or none),
\* followed by the effect on [user]
AuthStateRestored(u) ==
  /\ loading /\ loginPc = "idle"
  /\ user' = u
  /\ loading' = FALSE
  /\ pendingLookups' = IF u = Null THEN pendingLookups ELSE pendingLookups \cup {u}
  /\ SetSession(IF u = Null THEN NoAdmin
                ELSE [isAdmin |-> isAdmin, adminRole |-> adminRole,
                      allowedBranchIds |-> allowedBranchIds])
  /\ Goto(Redirect(route, FALSE, u))
  /\ UNCHANGED <<error, loginPc, lookupOutcome, lookupRecord>>
  /\ UNCHANGED <<storeVars, exportVars, submitResult>>

\* loginWithEmail / loginWithGoogle up to the await
LoginStart ==
  /\ route = "login" /\ user = Null /\ ~loading /\ loginPc = "idle"
  /\ error' = Null
  /\ loading' = TRUE
  /\ loginPc' = "inflight"
  /\ UNCHANGED <<user, isAdmin, adminRole, allowedBranchIds, pendingLookups,
                 lookupOutcome, lookupRecord>>
  /\ UNCHANGED <<storeVars, pageVars, reviewPageVars, feedbackVars>>

\* the sign-in call rejects: catch and finally
LoginFail ==
  /\ loginPc = "inflight"
  /\ error' = "auth-error"
  /\ loading' = FALSE
  /\ loginPc' = "idle"
  /\ Goto(Redirect(route, FALSE, user))
  /\ UNCHANGED <<user, isAdmin, adminRole, allowedBranchIds, pendingLookups,
                 lookupOutcome, lookupRecord>>
  /\ UNCHANGED <<storeVars, exportVars, submitResult>>

\* the sign-in call resolves: onAuthStateChanged(user), the effect on
\* [user] starts loadAdminData, finally setLoading(false)
LoginSucceed(u) ==
  /\ loginPc = "inflight"
  /\ user' = u
  /\ loading' = FALSE
  /\ loginPc' = "idle"
  /\ pendingLookups' = pendingLookups \cup {u}
  /\ UNCHANGED <<error, isAdmin, adminRole, allowedBranchIds, lookupOutcome, lookupRecord>>
  /\ UNCHANGED <<storeVars, pageVars, reviewPageVars, feedbackVars>>

\* logout: signOut, onAuthStateChanged(null), the effect on [user] clears
\* the role state; AdminLayout.handleLogout (or ProtectedRoute) leaves /admin
Logout ==
  /\ user # Null /\ loginPc = "idle"
  /\ user' = Null
  /\ loading' = FALSE
  /\ SetSession(NoAdmin)
  /\ lookupOutcome' = "none"
  /\ lookupRecord' = NoRecord
  /\ Goto(Redirect(route, FALSE, Null))
  /\ UNCHANGED <<error, pendingLookups, loginPc>>
  /\ UNCHANGED <<storeVars, exportVars, submitResult>>

\* loadAdminData(uid) after `await getAdmin(uid)`: the document is read, or
\* the read throws (store unavailable)
LoadAdminDataDone(uid, unavailable) ==
  /\ uid \in pendingLookups
  /\ pendingLookups' = pendingLookups \ {uid}
  /\ IF unavailable
       THEN /\ SetSession(NoAdmin)
            /\ lookupOutcome' = "unavailable"
            /\ lookupRecord' = NoRecord
       ELSE /\ SetSession(ResolveAdmin(admins[uid]))
            /\ lookupOutcome' = IF admins[uid] = NoRecord THEN "notfound" ELSE "found"
            /\ lookupRecord' = admins[uid]
  /\ UNCHANGED <<user, loading, error, loginPc>>
  /\ UNCHANGED <<storeVars, pageVars, reviewPageVars, feedbackVars>>

\* the address bar or a link: any route can be requested
Navigate(r) ==
  /\ r # route
  /\ Goto(Redirect(r, loading, user))
  /\ UNCHANGED <<storeVars, authVars, exportVars, submitResult>>

(* ------------------------- AdminsManagement.tsx ----------------------- *)
\* the routed page is rendered inside ProtectedRoute
PageShown(r) == route = r /\ ProtectedRoute = "children"

ExistingAdmins(store) == {u \in Uids : store[u] # NoRecord}

\* a service call, tagged with the caller's role state when it is issued
Call(op) == [op |-> op, role |-> adminRole, lookup |-> lookupOutcome]

\* the effect on [isOwner]: `if (!isOwner) return; loadData()`.  isOwner is
\* a new closure on every render, so the effect runs after every render
AdminsLoadData(fails) ==
  /\ PageShown("admins")
  /\ ~NotIsOwnerRef
  /\ lastCall' = Call("getAllAdmins")
  /\ pageState' = "ready"
  /\ IF fails
       THEN pageError' = "failed" /\ UNCHANGED adminsList
       ELSE pageError' = Null /\ adminsList' = ExistingAdmins(admins)
  /\ UNCHANGED route
  /\ UNCHANGED <<storeVars, authVars, reviewPageVars, feedbackVars>>

\* handleSubmit with the form holding uid, role and selectedBranchIds;
\* on success the form is reset and loadData runs
AdminsSubmit(uid, role, selectedBranchIds, fails) ==
  /\ View = "admins" /\ pageState = "ready"
  /\ lastCall' = Call("setAdmin")
  /\ IF fails
       THEN /\ pageError' = "failed"
            /\ UNCHANGED <<admins, adminsList>>
       ELSE /\ admins' = [admins EXCEPT ![uid] =
                 setAdminDoc(role, IF role = "owner" THEN UndefinedList
                                   ELSE selectedBranchIds)]
            /\ pageError' = Null
            /\ adminsList' = ExistingAdmins(admins')
  /\ UNCHANGED <<route, pageState>>
  /\ UNCHANGED <<branches, reviews, clock, authVars, reviewPageVars, feedbackVars>>

\* variant: handleDelete without the check against user.uid
AdminsDelete_NoSelfCheck(adminId, fails) ==
  /\ View = "admins" /\ pageState = "ready"
  /\ adminId \in adminsList
  /\ lastCall' = Call("removeAdmin")
  /\ IF fails
       THEN /\ pageError' = "failed"
            /\ UNCHANGED <<admins, adminsList>>
       ELSE /\ admins' = [admins EXCEPT ![adminId] = NoRecord]
            /\ pageError' = Null
            /\ adminsList' = ExistingAdmins(admins')
  /\ UNCHANGED <<route, pageState>>
  /\ UNCHANGED <<branches, reviews, clock, authVars, reviewPageVars, feedbackVars>>

\* handleDelete on a row of the loaded list (the confirm dialog accepted)
AdminsDelete(adminId, fails) ==
  /\ View = "admins" /\ pageState = "ready"
  /\ adminId \in adminsList
  /\ IF adminId = user
       THEN /\ pageError' = "cannot-delete-self"
            /\ UNCHANGED <<admins, adminsList, lastCall>>
       ELSE /\ lastCall' = Call("removeAdmin")
            /\ IF fails
                 THEN /\ pageError' = "failed"
                      /\ UNCHANGED <<admins, adminsList>>
                 ELSE /\ admins' = [admins EXCEPT ![adminId] = NoRecord]
                      /\ pageError' = Null
                      /\ adminsList' = ExistingAdmins(admins')
  /\ UNCHANGED <<route, pageState>>
  /\ UNCHANGED <<branches, reviews, clock, authVars, reviewPageVars, feedbackVars>>

(* ------------------------ BranchesManagement.tsx ---------------------- *)
\* the mount effect: loadBranches
BranchesLoad(fails) ==
  /\ PageShown("branches") /\ pageState = "unmounted"
  /\ lastCall' = Call("getAllBranches")
  /\ pageState' = "ready"
  /\ pageError' = IF fails THEN "failed" ELSE Null
  /\ UNCHANGED <<route, adminsList>>
  /\ UNCHANGED <<storeVars, authVars, reviewPageVars, feedbackVars>>

BranchWrite(op, newBranches, fails) ==
  /\ PageShown("branches") /\ pageState = "ready"
  /\ lastCall' = Call(op)
  /\ IF fails
       THEN pageError' = "failed" /\ UNCHANGED branches
       ELSE pageError' = Null /\ branches' = newBranches
  /\ UNCHANGED <<route, pageState, adminsList>>
  /\ UNCHANGED <<admins, reviews, clock, authVars, reviewPageVars, feedbackVars>>

\* handleSubmit without editingBranch: createBranch (addDoc picks a new id)
BranchesCreate(b, active, fails) ==
  /\ branches[b] = "absent"
  /\ BranchWrite("createBranch",
                 [branches EXCEPT ![b] = IF active THEN "active" ELSE "inactive"], fails)

\* handleSubmit with editingBranch, and handleToggleActive: updateBranch
BranchesUpdate(b, active, fails) ==
  /\ branches[b] # "absent"
  /\ BranchWrite("updateBranch",
                 [branches EXCEPT ![b] = IF active THEN "active" ELSE "inactive"], fails)

\* variant: deleting a branch also deletes its reviews
BranchesDelete_Cascade(b, fails) ==
  /\ branches[b] # "absent"
  /\ PageShown("branches") /\ pageState = "ready"
  /\ lastCall' = Call("deleteBranch")
  /\ IF fails
       THEN pageError' = "failed" /\ UNCHANGED <<branches, reviews>>
       ELSE /\ pageError' = Null
            /\ branches' = [branches EXCEPT ![b] = "absent"]
            /\ reviews' = SelectSeq(reviews, LAMBDA r : r.branchId # b)
  /\ UNCHANGED <<route, pageState, adminsList>>
  /\ UNCHANGED <<admins, clock, authVars, reviewPageVars, feedbackVars>>

\* handleDelete (the confirm dialog accepted): deleteBranch is a deleteDoc
BranchesDelete(b, fails) ==
  /\ branches[b] # "absent"
  /\ BranchWrite("deleteBranch", [branches EXCEPT ![b] = "absent"], fails)

(* --------------------------- specifications --------------------------- *)
\* the session: sign-in, sign-out, the admin-record lookup and the router,
\* over a fixed admins collection
NextAuth ==
  \/ \E u \in Uids \cup {Null} : AuthStateRestored(u)
  \/ LoginStart
  \/ LoginFail
  \/ \E u \in Uids : LoginSucceed(u)
  \/ Logout
  \/ \E u \in Uids, unavailable \in BOOLEAN : LoadAdminDataDone(u, unavailable)
  \/ \E r \in Routes : Navigate(r)

SpecAuth == InitAuth /\ [][NextAuth]_vars

\* the state right after onAuthStateChanged reported a signed-in user
InitSignedIn ==
  /\ admins \in InitAdmins
  /\ branches = [b \in BranchIds |-> IF b = "b1" THEN "active" ELSE "absent"]
  /\ reviews = <<>>
  /\ clock = 0
  /\ user \in Uids
  /\ loading = FALSE
  /\ error = Null
  /\ isAdmin = FALSE
  /\ adminRole = Null
  /\ allowedBranchIds = NullList
  /\ pendingLookups = {user}
  /\ loginPc = "idle"
  /\ lookupOutcome = "none"
  /\ lookupRecord = NoRecord
  /\ InitPages
  /\ InitReviewPages

\* a signed-in identity on the admin management page
NextAdmins ==
  \/ \E u \in Uids, unavailable \in BOOLEAN : LoadAdminDataDone(u, unavailable)
  \/ \E r \in Routes : Navigate(r)
  \/ \E fails \in BOOLEAN : AdminsLoadData(fails)
  \/ \E u \in Uids, r \in Roles, sel \in SUBSET BranchIds, fails \in BOOLEAN :
        AdminsSubmit(u, r, sel, fails)
  \/ \E u \in Uids, fails \in BOOLEAN : AdminsDelete(u, fails)

SpecAdmins == InitSignedIn /\ [][NextAdmins]_vars

\* a signed-in identity on the branches management page
NextBranches ==
  \/ \E u \in Uids, unavailable \in BOOLEAN : LoadAdminDataDone(u, unavailable)
  \/ \E r \in Routes : Navigate(r)
  \/ \E fails \in BOOLEAN : BranchesLoad(fails)
  \/ \E b \in BranchIds, active \in BOOLEAN, fails \in BOOLEAN : BranchesCreate(b, active, fails)
  \/ \E b \in BranchIds, active \in BOOLEAN, fails \in BOOLEAN : BranchesUpdate(b, active, fails)
  \/ \E b \in BranchIds, fails \in BOOLEAN : BranchesDelete(b, fails)

SpecBranches == InitSignedIn /\ [][NextBranches]_vars

(* ======================= services/firestore.ts ======================== *)
\* String.prototype.trim on the strings a form can hold
Trim(str) == IF str = " " THEN "" ELSE str

\* variant: only the rating is validated
ReviewValid_RatingOnly(data) == ~(data.rating < 1 \/ data.rating > 5)

\* submitReview: the two validations, then the document that addDoc stores
\* (createdAt is the server timestamp); a rejected call stores nothing
ReviewValid(data) ==
  /\ ~(data.rating < 1 \/ data.rating > 5)
  /\ ~(data.branchId = "" \/ Trim(data.branchId) = "")

\* the error submitReview throws before it builds the document
ValidationError(data) ==
  IF data.rating < 1 \/ data.rating > 5 THEN "Rating must be between 1 and 5"
  ELSE "Branch ID is required"

ReviewDoc(data, id, now) ==
  [id |-> id, branchId |-> Trim(data.branchId), rating |-> data.rating,
   contact |-> IF Trim(data.contact) = "" THEN Null ELSE Trim(data.contact),
   createdAt |-> now]

\* variant: the query without limit(500)
QueryAfter_NoLimit(store, lastDoc) ==
  LET n == IF lastDoc = NoDoc THEN Len(store) ELSE lastDoc - 1
  IN  [i \in 1..n |-> store[n - i + 1]]

\* query(orderBy('createdAt','desc'), limit(500), startAfter(lastDoc)): the
\* documents after the cursor, newest first.  Ids are insertion ranks and
\* createdAt grows with them.
QueryAfter(store, lastDoc) ==
  LET n == IF lastDoc = NoDoc THEN Len(store) ELSE lastDoc - 1
      k == Min(n, FetchLimit)
  IN  [i \in 1..k |-> store[n - i + 1]]

\* the client-side filter of getReviews
Matches(review, opts) ==
  /\ ~(opts.branchId # "" /\ review.branchId # opts.branchId)
  /\ opts.dateRange # NoRange =>
        /\ ~(review.createdAt < opts.dateRange[1])
        /\ ~(review.createdAt > opts.dateRange[2])
  /\ ~(opts.minRating # UndefinedNum /\ review.rating < opts.minRating)
  /\ ~(opts.maxRating # UndefinedNum /\ review.rating > opts.maxRating)

\* getReviews; an allowedBranchIds property of the options object is not
\* among the destructured options and is never read
getReviews(store, opts) ==
  LET snapshot == QueryAfter(store, opts.lastDoc)
      allReviews == SelectSeq(snapshot, LAMBDA r : Matches(r, opts))
      paginatedReviews == SubSeq(allReviews, 1, Min(Len(allReviews), opts.pageSize))
  IN  [reviews |-> paginatedReviews,
       lastDoc |-> IF Len(paginatedReviews) > 0
                   THEN paginatedReviews[Len(paginatedReviews)].id
                   ELSE NoDoc,
       hasMore |-> Len(allReviews) > opts.pageSize]

(* ------------------------------ the public form ----------------------- *)
\* submitReview: the validations, then addDoc
StoreReview(data) ==
  /\ IF ReviewValid(data)
       THEN /\ reviews' = Append(reviews, ReviewDoc(data, Len(reviews) + 1, clock + 1))
            /\ clock' = clock + 1
            /\ submitResult' = [data |-> data, outcome |-> "stored"]
       ELSE /\ UNCHANGED <<reviews, clock>>
            /\ submitResult' = [data |-> data, outcome |-> ValidationError(data)]
  /\ UNCHANGED <<admins, branches>>

\* submitReview with valid data whose addDoc rejects: the catch rethrows
StoreReviewFails(data) ==
  /\ ReviewValid(data)
  /\ submitResult' = [data |-> data, outcome |-> "Failed to submit feedback. Please try again."]
  /\ UNCHANGED storeVars

\* submitReview called from a feedback tablet
SubmitReview(data) ==
  /\ Len(reviews) < MaxReviews
  /\ StoreReview(data)
  /\ UNCHANGED <<authVars, pageVars, reviewPageVars, fbPageVars>>

\* the same call while an export is watched
ExportSubmit(data) ==
  /\ Len(reviews) < MaxExportReviews
  /\ StoreReview(data)
  /\ UNCHANGED <<authVars, pageVars, reviewPageVars, fbPageVars>>

\* the same call while the statistics are watched
StatsSubmit(data) ==
  /\ Len(reviews) < MaxStatsReviews
  /\ StoreReview(data)
  /\ UNCHANGED <<authVars, pageVars, reviewPageVars, fbPageVars>>

(* ----------------------------- FeedbackPage.tsx ----------------------- *)
\* the display order of branches (sorted by name)
BranchOrder == <<"b1", "b2">>

\* the branch ids a URL can carry: none, a stored one, or an unknown one
UrlBranchIds == {""} \cup BranchIds \cup {"bx"}

\* a Branch object as read from its document
BranchObj(coll, b) == [id |-> b, isActive |-> coll[b] = "active"]

\* variant: every stored branch is returned, as getAllBranches does
getBranches_All(coll) == SelectSeq(BranchOrder, LAMBDA b : coll[b] # "absent")

\* getBranches: the active branches, sorted by name
getBranches(coll) == SelectSeq(BranchOrder, LAMBDA b : coll[b] = "active")

\* getBranch: null when the document does not exist
getBranch(coll, b) ==
  IF b \in DOMAIN coll /\ coll[b] # "absent" THEN BranchObj(coll, b) ELSE NoBranch

\* the submissions in flight once the form that issued them is unmounted
Detached(subs) == [i \in 1..Len(subs) |-> [subs[i] EXCEPT !.current = FALSE]]

\* the FeedbackForm instance stays mounted over a step that starts and
\* ends in the form state
FormKept(nextState) == fbState = "form" /\ nextState = "form"

\* setPageState(nextState) and the render that follows: leaving the form
\* state unmounts FeedbackForm (its state is dropped), entering thank-you
\* mounts ThankYouScreen with countdown = autoResetSeconds
PageTo(nextState) ==
  /\ fbState' = nextState
  /\ formError' = IF FormKept(nextState) THEN formError ELSE Null
  /\ isSubmitting' = IF FormKept(nextState) THEN isSubmitting ELSE FALSE
  /\ fbSubmits' = IF FormKept(nextState) THEN fbSubmits ELSE Detached(fbSubmits)
  /\ countdown' = IF nextState # "thank-you" THEN 0
                  ELSE IF fbState = "thank-you" THEN countdown
                  ELSE AutoResetSeconds

\* the setters of loadData's catch
FeedbackLoadFailed ==
  /\ fbError' = "Failed to load. Please check your connection."
  /\ PageTo("select-branch")
  /\ UNCHANGED <<fbBranches, fbSelected>>

\* the effect on [urlBranchId], up to the first await of loadData: on mount
\* and whenever the URL's branch id changes.  Earlier calls stay in flight.
FeedbackLoadStart(url) ==
  /\ fbUrl' = url
  /\ fbError' = Null
  /\ fbLoads' = fbLoads \cup {[url |-> url,
                                step |-> IF url # "" THEN "getBranch" ELSE "getBranches"]}
  /\ Cardinality(fbLoads') <= MaxInflight

\* the page is opened, or the address changes while it is shown
FeedbackOpen(url) ==
  /\ route = "feedback"
  /\ pageState = "unmounted" \/ url # fbUrl
  /\ pageState' = "ready"
  /\ FeedbackLoadStart(url)
  /\ UNCHANGED <<fbState, fbBranches, fbSelected, formVars, submitResult>>
  /\ UNCHANGED <<route, pageError, adminsList, lastCall>>
  /\ UNCHANGED <<storeVars, authVars, reviewPageVars>>

\* loadData after `await getBranch(urlBranchId)`
FeedbackGetBranchDone(load, fails) ==
  /\ load \in fbLoads /\ load.step = "getBranch"
  /\ IF fails
       THEN /\ FeedbackLoadFailed
            /\ fbLoads' = fbLoads \ {load}
       ELSE LET branch == getBranch(branches, load.url)
            IN  IF branch # NoBranch /\ branch.isActive
                  THEN /\ fbSelected' = branch
                       /\ PageTo("form")
                       /\ fbLoads' = fbLoads \ {load}
                       /\ UNCHANGED <<fbBranches, fbError>>
                  ELSE /\ fbLoads' = (fbLoads \ {load}) \cup
                                       {[load EXCEPT !.step = "getBranches"]}
                       /\ UNCHANGED <<fbState, fbBranches, fbSelected, fbError, formVars>>
  /\ UNCHANGED <<fbUrl, submitResult>>
  /\ UNCHANGED <<storeVars, authVars, pageVars, reviewPageVars>>

\* loadData after `await getBranches()`
FeedbackGetBranchesDone(load, fails) ==
  /\ load \in fbLoads /\ load.step = "getBranches"
  /\ fbLoads' = fbLoads \ {load}
  /\ IF fails
       THEN FeedbackLoadFailed
       ELSE LET ids == getBranches(branches)
                allBranches == [i \in 1..Len(ids) |-> BranchObj(branches, ids[i])]
            IN  /\ fbBranches' = allBranches
                /\ IF Len(allBranches) = 1
                     THEN fbSelected' = allBranches[1] /\ PageTo("form")
                     ELSE PageTo("select-branch") /\ UNCHANGED fbSelected
                /\ UNCHANGED fbError
  /\ UNCHANGED <<fbUrl, submitResult>>
  /\ UNCHANGED <<storeVars, authVars, pageVars, reviewPageVars>>

\* handleBranchSelect on the i-th card of BranchSelector (shown without an
\* error); navigate() changes urlBranchId, so the effect runs again
handleBranchSelect(i) ==
  /\ route = "feedback" /\ fbState = "select-branch" /\ fbError = Null
  /\ i \in 1..Len(fbBranches)
  /\ fbSelected' = fbBranches[i]
  /\ PageTo("form")
  /\ IF fbBranches[i].id # fbUrl
       THEN FeedbackLoadStart(fbBranches[i].id)
       ELSE UNCHANGED <<fbUrl, fbError, fbLoads>>
  /\ UNCHANGED <<fbBranches, submitResult>>
  /\ UNCHANGED <<storeVars, authVars, pageVars, reviewPageVars>>

\* FeedbackForm.handleSubmit with the stars at `rating` (the button is
\* disabled while isSubmitting or with no star), up to the await inside
\* submitReview: FeedbackPage.handleSubmit has called submitReview, whose
\* validations passed, and addDoc is in flight
FeedbackSubmitStart(rating, contact) ==
  /\ route = "feedback" /\ fbState = "form" /\ fbSelected # NoBranch
  /\ ~(isSubmitting \/ rating = 0)
  /\ Len(fbSubmits) < MaxSubmits
  /\ LET data == [branchId |-> fbSelected.id, rating |-> rating, contact |-> contact]
     IN  /\ ReviewValid(data)
         /\ fbSubmits' = Append(fbSubmits, [data |-> data, current |-> TRUE])
  /\ formError' = Null
  /\ isSubmitting' = TRUE
  /\ UNCHANGED <<fbState, fbBranches, fbSelected, fbError, fbUrl, fbLoads, countdown>>
  /\ UNCHANGED <<submitResult, storeVars, authVars, pageVars, reviewPageVars>>

\* addDoc of the i-th submission in flight settles.  Resolved: the review
\* is stored and FeedbackPage.handleSubmit sets the thank-you state.
\* Rejected: submitReview and FeedbackPage.handleSubmit rethrow, the catch
\* of FeedbackForm.handleSubmit sets the error and its finally clears
\* isSubmitting (setters of a form that is no longer mounted do nothing)
FeedbackSubmitDone(i, fails) ==
  /\ i \in 1..Len(fbSubmits)
  /\ LET sub == fbSubmits[i]
         rest == SubSeq(fbSubmits, 1, i - 1) \o SubSeq(fbSubmits, i + 1, Len(fbSubmits))
     IN  IF fails
           THEN /\ StoreReviewFails(sub.data)
                /\ fbSubmits' = rest
                /\ formError' = IF sub.current THEN "feedback.error" ELSE formError
                /\ isSubmitting' = IF sub.current THEN FALSE ELSE isSubmitting
                /\ UNCHANGED <<fbState, countdown>>
           ELSE /\ Len(reviews) < MaxReviews
                /\ StoreReview(sub.data)
                /\ fbState' = "thank-you"
                /\ fbSubmits' = Detached(rest)
                /\ formError' = Null
                /\ isSubmitting' = FALSE
                /\ countdown' = IF fbState = "thank-you" THEN countdown
                                ELSE AutoResetSeconds
  /\ UNCHANGED <<fbBranches, fbSelected, fbError, fbUrl, fbLoads>>
  /\ UNCHANGED <<authVars, pageVars, reviewPageVars>>

\* ThankYouScreen: the one-second timer fires, setCountdown(countdown - 1)
ThankYouTick ==
  /\ route = "feedback" /\ fbState = "thank-you"
  /\ ~(countdown <= 0)
  /\ countdown' = countdown - 1
  /\ UNCHANGED <<fbState, fbBranches, fbSelected, fbError, fbUrl, fbLoads,
                 formError, isSubmitting, fbSubmits>>
  /\ UNCHANGED <<submitResult, storeVars, authVars, pageVars, reviewPageVars>>

\* ThankYouScreen: the effect on [countdown] with countdown <= 0 calls
\* onReset, which is handleReset
ThankYouElapsed ==
  /\ route = "feedback" /\ fbState = "thank-you"
  /\ countdown <= 0
  /\ PageTo("form")
  /\ UNCHANGED <<fbBranches, fbSelected, fbError, fbUrl, fbLoads>>
  /\ UNCHANGED <<submitResult, storeVars, authVars, pageVars, reviewPageVars>>

\* handleReset from the thank-you screen's button
handleReset ==
  /\ route = "feedback" /\ fbState = "thank-you"
  /\ PageTo("form")
  /\ UNCHANGED <<fbBranches, fbSelected, fbError, fbUrl, fbLoads>>
  /\ UNCHANGED <<submitResult, storeVars, authVars, pageVars, reviewPageVars>>

\* updateBranch(id, {isActive}) reaching the store from an admin's browser
\* while the tablet shows the feedback page
updateBranch(b, active) ==
  /\ branches[b] # "absent"
  /\ branches' = [branches EXCEPT ![b] = IF active THEN "active" ELSE "inactive"]
  /\ UNCHANGED <<admins, reviews, clock>>
  /\ UNCHANGED <<authVars, pageVars, reviewPageVars, feedbackVars>>

(* ----------------------------- ReviewsList.tsx ------------------------ *)
\* the options fetchReviews passes to getReviews
ListOptions(filters, startAfterDoc) ==
  [branchId |-> filters.branchId,
   dateRange |-> filters.dateRange,
   minRating |-> IF filters.selectedRating # "" THEN ParseInt(filters.selectedRating)
                 ELSE UndefinedNum,
   maxRating |-> UndefinedNum,
   pageSize |-> PAGE_SIZE,
   lastDoc |-> startAfterDoc]

\* fetchReviews(startAfterDoc) with the filters it closes over, up to the
\* await: setLoading(true) and the getReviews call is in flight.  Nothing
\* cancels the calls issued before; `latest` marks the newest one.
fetchReviews(filters, startAfterDoc) ==
  LET earlier == {[r EXCEPT !.latest = FALSE] : r \in listInflight}
      issued == earlier \cup {[filters |-> filters, cursor |-> startAfterDoc,
                               latest |-> TRUE]}
  IN  /\ Cardinality(issued) <= MaxInflight
      /\ listInflight' = issued
      /\ listLoading' = TRUE
      /\ listLatest' = "pending"

\* the rest of fetchReviews once getReviews settles: the three setters, or
\* the catch (console.error only), then finally setLoading(false)
fetchReviewsDone(req, fails) ==
  /\ req \in listInflight
  /\ listInflight' = listInflight \ {req}
  /\ listLoading' = FALSE
  /\ IF fails
       THEN /\ UNCHANGED <<listReviews, listLastDoc, listHasMore>>
            /\ listLatest' = IF req.latest THEN "failed" ELSE listLatest
       ELSE LET result == getReviews(reviews, ListOptions(req.filters, req.cursor))
            IN  /\ listReviews' = result.reviews
                /\ listLastDoc' = result.lastDoc
                /\ listHasMore' = result.hasMore
                /\ listLatest' = IF req.latest THEN "shown"
                                 ELSE IF listLatest = "shown" THEN "overwritten"
                                 ELSE listLatest
  /\ UNCHANGED <<listFilters, page, pageHistory, pageVars>>
  /\ UNCHANGED <<storeVars, authVars, exportVars, statsVars, feedbackVars>>

\* mount, or a change of selectedBranch / selectedRating / dateRange: the
\* effect on [fetchReviews] resets the paging and fetches the first page
ListSetFilters(filters) ==
  /\ PageShown("reviews")
  /\ pageState = "unmounted" \/ filters # listFilters
  /\ listFilters' = filters
  /\ pageState' = "ready"
  /\ page' = 1
  /\ pageHistory' = <<NoDoc>>
  /\ fetchReviews(filters, NoDoc)
  /\ UNCHANGED <<listReviews, listLastDoc, listHasMore>>
  /\ UNCHANGED <<route, pageError, adminsList, lastCall>>
  /\ UNCHANGED <<storeVars, authVars, exportVars, statsVars, feedbackVars>>

\* the pagination bar is rendered when !loading and the list is not empty
PaginationShown ==
  PageShown("reviews") /\ pageState = "ready" /\ ~listLoading /\ Len(listReviews) > 0

handleNextPage ==
  /\ PaginationShown
  /\ page < MaxPage
  /\ ~(~listHasMore \/ listLastDoc = NoDoc)
  /\ pageHistory' = Append(pageHistory, listLastDoc)
  /\ page' = page + 1
  /\ fetchReviews(listFilters, listLastDoc)
  /\ UNCHANGED <<listReviews, listLastDoc, listHasMore>>
  /\ UNCHANGED <<listFilters, pageVars>>
  /\ UNCHANGED <<storeVars, authVars, exportVars, statsVars, feedbackVars>>

\* variant: Previous requesting with the cursor of the page it leaves
handlePrevPage_SameCursor ==
  /\ PaginationShown
  /\ ~(page <= 1)
  /\ pageHistory' = SubSeq(pageHistory, 1, Len(pageHistory) - 1)
  /\ page' = page - 1
  /\ fetchReviews(listFilters, pageHistory[page])
  /\ UNCHANGED <<listReviews, listLastDoc, listHasMore>>
  /\ UNCHANGED <<listFilters, pageVars>>
  /\ UNCHANGED <<storeVars, authVars, exportVars, statsVars, feedbackVars>>

handlePrevPage ==
  /\ PaginationShown
  /\ ~(page <= 1)
  /\ pageHistory' = SubSeq(pageHistory, 1, Len(pageHistory) - 1)
  /\ page' = page - 1
  /\ fetchReviews(listFilters, pageHistory[page - 1])
  /\ UNCHANGED <<listReviews, listLastDoc, listHasMore>>
  /\ UNCHANGED <<listFilters, pageVars>>
  /\ UNCHANGED <<storeVars, authVars, exportVars, statsVars, feedbackVars>>

(* ------------------------------- Backups ------------------------------ *)
\* handleExportReviewsJson / handleExportReviewsCsv: the click
ExportStart ==
  /\ ~loading /\ canPerform("exportReports")
  /\ exportPc = "idle"
  /\ exportPc' = "loop"
  /\ exportReviews' = <<>>
  /\ exportLastDoc' = NoDoc
  /\ exportHasMore' = TRUE
  /\ exportAsOf' = Len(reviews)
  /\ UNCHANGED <<storeVars, authVars, pageVars, listVars, statsVars, feedbackVars>>

\* one iteration of `while (hasMore)`, with the safety limit's break
ExportPage ==
  /\ exportPc = "loop" /\ exportHasMore
  /\ LET result == getReviews(reviews,
                      [branchId |-> "", dateRange |-> NoRange,
                       minRating |-> UndefinedNum, maxRating |-> UndefinedNum,
                       pageSize |-> ExportPageSize, lastDoc |-> exportLastDoc,
                       allowedBranchIds |-> allowedBranchIds])
     IN  /\ exportReviews' = exportReviews \o result.reviews
         /\ exportLastDoc' = result.lastDoc
         /\ exportHasMore' = result.hasMore
         /\ exportPc' = IF Len(exportReviews') > ExportLimit THEN "done" ELSE "loop"
  /\ UNCHANGED exportAsOf
  /\ UNCHANGED <<storeVars, authVars, pageVars, listVars, statsVars, feedbackVars>>

\* the loop condition fails: the file is written
ExportFinish ==
  /\ exportPc = "loop" /\ ~exportHasMore
  /\ exportPc' = "done"
  /\ UNCHANGED <<exportReviews, exportLastDoc, exportHasMore, exportAsOf>>
  /\ UNCHANGED <<storeVars, authVars, pageVars, listVars, statsVars, feedbackVars>>

\* the next click starts from scratch
ExportReset ==
  /\ exportPc = "done"
  /\ exportPc' = "idle"
  /\ UNCHANGED <<exportReviews, exportLastDoc, exportHasMore, exportAsOf>>
  /\ UNCHANGED <<storeVars, authVars, pageVars, listVars, statsVars, feedbackVars>>

(* ------------------------ statistics services ------------------------ *)
\* recentReviews: reviews.slice(0, 10), scaled down
RecentLimit == 2

Reverse(seq) == [i \in 1..Len(seq) |-> seq[Len(seq) - i + 1]]

InDateRange(review, dateRange) ==
  review.createdAt >= dateRange[1] /\ review.createdAt <= dateRange[2]

\* variant: the average is cut to one decimal place
Round1_Truncate(totalRating, count) == (10 * totalRating) \div count

\* Math.round((totalRating / count) * 10) / 10, in tenths
Round1(totalRating, count) == (20 * totalRating + count) \div (2 * count)

RECURSIVE SumRatings(_)
SumRatings(seq) ==
  IF seq = <<>> THEN 0 ELSE seq[1].rating + SumRatings(Tail(seq))

\* getReviewsForStats({dateRange, allowedBranchIds}): only branchId and
\* dateRange are destructured; in-range reviews, newest first
getReviewsForStats(store, opts) ==
  Reverse(SelectSeq(store, LAMBDA r :
            /\ InDateRange(r, opts.dateRange)
            /\ (opts.branchId = "" \/ r.branchId = opts.branchId)))

\* getBranchStats(dateRange): the Map branchId -> {count, totalRating} over
\* every in-range review (a branch without review has no entry)
getBranchStats(store, dateRange) ==
  LET inRange == SelectSeq(store, LAMBDA r : InDateRange(r, dateRange))
      of(b) == SelectSeq(inRange, LAMBDA r : r.branchId = b)
  IN  [b \in {inRange[i].branchId : i \in 1..Len(inRange)} |->
         [count |-> Len(of(b)), totalRating |-> SumRatings(of(b))]]

\* getDashboardTotals
getDashboardTotals(store, coll) ==
  [totalReviews |-> Len(store),
   averageRating |-> IF Len(store) > 0 THEN Round1(SumRatings(store), Len(store)) ELSE 0,
   activeBranches |-> Cardinality({b \in DOMAIN coll : coll[b] = "active"})]

\* getCustomerFrequency: the forEach over the documents, building the Map
\* in first-seen order of the contacts
RECURSIVE CustomerMap(_, _, _)
CustomerMap(docs, dateRange, acc) ==
  IF docs = <<>> THEN acc
  ELSE LET review == docs[1]
           skip == \/ review.contact = Null
                   \/ (dateRange # NoRange /\ ~InDateRange(review, dateRange))
           at == {j \in 1..Len(acc) : acc[j].contact = review.contact}
           next ==
             IF skip THEN acc
             ELSE IF at = {}
               THEN Append(acc, [contact |-> review.contact, count |-> 1,
                                 totalRating |-> review.rating,
                                 lastReview |-> review.createdAt])
               ELSE [j \in 1..Len(acc) |->
                      IF j \in at
                        THEN [contact |-> acc[j].contact,
                              count |-> acc[j].count + 1,
                              totalRating |-> acc[j].totalRating + review.rating,
                              lastReview |-> IF review.createdAt > acc[j].lastReview
                                             THEN review.createdAt
                                             ELSE acc[j].lastReview]
                        ELSE acc[j]]
       IN  CustomerMap(Tail(docs), dateRange, next)

\* Array.prototype.sort((a, b) => b.count - a.count): stable, by count
\* descending
RECURSIVE SortByCountDesc(_)
SortByCountDesc(seq) ==
  IF seq = <<>> THEN <<>>
  ELSE LET rest == SortByCountDesc(Tail(seq))
           before == SelectSeq(rest, LAMBDA e : e.count > seq[1].count)
           after == SelectSeq(rest, LAMBDA e : ~(e.count > seq[1].count))
       IN  before \o <<seq[1]>> \o after

\* variant: a contact needs more than minReviews reviews
getCustomerFrequency_Above(store, dateRange, minReviews) ==
  LET entries == CustomerMap(store, dateRange, <<>>)
      kept == SelectSeq(entries, LAMBDA e : e.count > minReviews)
      results == [j \in 1..Len(kept) |->
                   [contact |-> kept[j].contact, count |-> kept[j].count,
                    avgRating |-> Round1(kept[j].totalRating, kept[j].count),
                    lastReview |-> kept[j].lastReview]]
  IN  SortByCountDesc(results)

getCustomerFrequency(store, dateRange, minReviews) ==
  LET entries == CustomerMap(store, dateRange, <<>>)
      kept == SelectSeq(entries, LAMBDA e : e.count >= minReviews)
      results == [j \in 1..Len(kept) |->
                   [contact |-> kept[j].contact, count |-> kept[j].count,
                    avgRating |-> Round1(kept[j].totalRating, kept[j].count),
                    lastReview |-> kept[j].lastReview]]
  IN  SortByCountDesc(results)

(* --------------------------- useDashboardData ------------------------- *)
Day(t) == t \div TicksPerDay

\* variant: the end day is left out
eachDayOfInterval_EndExclusive(start, end) ==
  [i \in 1..(Day(end) - Day(start)) |-> Day(start) + i - 1]

\* eachDayOfInterval({start, end}): the calendar days from the day of start
\* to the day of end, in order
eachDayOfInterval(start, end) ==
  [i \in 1..(Day(end) - Day(start) + 1) |-> Day(start) + i - 1]

\* what fetchData computes from the four reads for the dashboard
DashboardFigures(store, coll, dateRange, allowed) ==
  LET totalsData == getDashboardTotals(store, coll)
      branchesData == getBranches(coll)
      statsMap == getBranchStats(store, dateRange)
      revs == getReviewsForStats(store, [branchId |-> "", dateRange |-> dateRange,
                                         allowedBranchIds |-> allowed])
      stat(b) == IF b \in DOMAIN statsMap THEN statsMap[b]
                 ELSE [count |-> 0, totalRating |-> 0]
      days == eachDayOfInterval(dateRange[1], dateRange[2])
      on(d) == SelectSeq(revs, LAMBDA r : Day(r.createdAt) = d)
  IN  [totals |-> totalsData,
       branchStats |-> [i \in 1..Len(branchesData) |->
          [branchId |-> branchesData[i],
           totalReviews |-> stat(branchesData[i]).count,
           averageRating |-> IF stat(branchesData[i]).count > 0
                             THEN Round1(stat(branchesData[i]).totalRating,
                                         stat(branchesData[i]).count)
                             ELSE 0]],
       dailyStats |-> [i \in 1..Len(days) |->
          [date |-> days[i],
           count |-> Len(on(days[i])),
           averageRating |-> IF Len(on(days[i])) > 0
                             THEN Round1(SumRatings(on(days[i])), Len(on(days[i])))
                             ELSE 0]],
       recentReviews |-> SubSeq(revs, 1, Min(Len(revs), RecentLimit))]

\* fetchData of useDashboardData: on mount, on a dateRange change and on
\* refetch; a rejected read (or an inverted interval) sets the error only
DashboardFetch(dateRange, fails) ==
  /\ PageShown("overview")
  /\ pageState' = "ready"
  /\ IF fails \/ dateRange[1] > dateRange[2]
       THEN dashboard' = [dashboard EXCEPT !.error = "Failed to load dashboard data",
                                          !.dateRange = dateRange]
       ELSE LET f == DashboardFigures(reviews, branches, dateRange, allowedBranchIds)
            IN  dashboard' = [loaded |-> TRUE, error |-> Null, dateRange |-> dateRange,
                              asOf |-> Len(reviews), totals |-> f.totals,
                              branchStats |-> f.branchStats,
                              dailyStats |-> f.dailyStats,
                              recentReviews |-> f.recentReviews]
  /\ UNCHANGED <<route, pageError, adminsList, lastCall, customers>>
  /\ UNCHANGED <<storeVars, authVars, listVars, exportVars, feedbackVars>>

\* fetchData of useCustomerFrequency
CustomersFetch(dateRange, minReviews, fails) ==
  /\ PageShown("customers")
  /\ pageState' = "ready"
  /\ IF fails
       THEN customers' = [customers EXCEPT !.error = "Failed to load customer data",
                                          !.dateRange = dateRange,
                                          !.minReviews = minReviews]
       ELSE customers' = [loaded |-> TRUE, error |-> Null, dateRange |-> dateRange,
                          minReviews |-> minReviews, asOf |-> Len(reviews),
                          data |-> getCustomerFrequency(reviews, dateRange, minReviews)]
  /\ UNCHANGED <<route, pageError, adminsList, lastCall, dashboard>>
  /\ UNCHANGED <<storeVars, authVars, listVars, exportVars, feedbackVars>>

(* --------------------------- review specifications -------------------- *)
\* ratings and date ranges the bounded runs use
FormRatings == {2, 5}
ListDateRanges == {<<1, MaxReviews>>, <<2, 3>>}
ListFilterChoices ==
  {[branchId |-> f[1], selectedRating |-> f[2], dateRange |-> f[3]] :
     f \in {<<"", "", <<1, MaxReviews>>>>, <<"b1", "", <<1, MaxReviews>>>>,
            <<"", "4", <<2, 3>>>>}}

FormData(b, r) == [branchId |-> b, rating |-> r, contact |-> ""]
\* the submissions made while the reviews list is watched
ListForms == {FormData("b1", 5), FormData("b2", 2)}

\* a session whose admin-record lookup has completed, on the reviews page
InitResolved ==
  /\ admins \in InitAdmins
  /\ branches = [b \in BranchIds |-> "active"]
  /\ reviews = <<>>
  /\ clock = 0
  /\ user = "u2"
  /\ loading = FALSE
  /\ error = Null
  /\ isAdmin = ResolveAdmin(admins[user]).isAdmin
  /\ adminRole = ResolveAdmin(admins[user]).adminRole
  /\ allowedBranchIds = ResolveAdmin(admins[user]).allowedBranchIds
  /\ pendingLookups = {}
  /\ loginPc = "idle"
  /\ lookupOutcome = IF admins[user] = NoRecord THEN "notfound" ELSE "found"
  /\ lookupRecord = admins[user]
  /\ pageState = "unmounted"
  /\ pageError = Null
  /\ adminsList = {}
  /\ lastCall = NoCall
  /\ InitReviewPages

InitReviews == InitResolved /\ route = "reviews"

NextReviews ==
  \/ \E data \in ListForms : SubmitReview(data)
  \/ \E f \in ListFilterChoices : ListSetFilters(f)
  \/ handleNextPage
  \/ handlePrevPage
  \/ \E req \in listInflight, fails \in BOOLEAN : fetchReviewsDone(req, fails)

SpecReviews == InitReviews /\ [][NextReviews]_vars

InitExport == InitResolved /\ route = "overview"

NextExport ==
  \/ \E b \in BranchIds, r \in FormRatings : ExportSubmit(FormData(b, r))
  \/ ExportStart
  \/ ExportPage
  \/ ExportFinish
  \/ ExportReset

SpecExport == InitExport /\ [][NextExport]_vars

\* every service operation side by side: submissions, branch and admin
\* management, listing and export, for a resolved session
InitServices == InitResolved /\ route = "overview"

NextServices ==
  \/ SubmitReview(FormData("b1", 5))
  \/ \E r \in {"branches", "admins", "reviews"} : Navigate(r)
  \/ BranchesLoad(FALSE)
  \/ \E b \in BranchIds : BranchesCreate(b, TRUE, FALSE)
  \/ \E b \in BranchIds : BranchesUpdate(b, FALSE, FALSE)
  \/ \E b \in BranchIds : BranchesDelete(b, FALSE)
  \/ AdminsLoadData(FALSE)
  \/ \E r \in Roles : AdminsSubmit("u1", r, {"b1"}, FALSE)
  \/ \E u \in Uids : AdminsDelete(u, FALSE)
  \/ ListSetFilters(InitListFilters)
  \/ handleNextPage
  \/ \E req \in listInflight : fetchReviewsDone(req, FALSE)
  \/ ExportStart
  \/ ExportPage
  \/ ExportFinish
  \/ ExportReset

SpecServices == InitServices /\ [][NextServices]_vars

\* what a caller can hand to submitReview: ratings in and out of range,
\* branch ids present, empty and blank
SubmitInputs ==
  [branchId : {"b1", "b2", "", " "}, rating : {0, 1, 5, 6}, contact : {""}]

\* the public page, with no session, over every branch collection
InitFeedback ==
  /\ admins = [u \in Uids |-> IF u = "u1" THEN [role |-> "owner", branchIds |-> NullList]
                                ELSE NoRecord]
  /\ branches \in [BranchIds -> {"absent", "active", "inactive"}]
  /\ reviews = <<>>
  /\ clock = 0
  /\ InitSession
  /\ InitPages
  /\ InitReviewPages

NextFeedback ==
  \/ \E url \in UrlBranchIds : FeedbackOpen(url)
  \/ \E load \in fbLoads, fails \in BOOLEAN : FeedbackGetBranchDone(load, fails)
  \/ \E load \in fbLoads, fails \in BOOLEAN : FeedbackGetBranchesDone(load, fails)
  \/ \E i \in 1..Cardinality(BranchIds) : handleBranchSelect(i)

SpecFeedback == InitFeedback /\ [][NextFeedback]_vars

\* a tablet on the feedback page of a chain with two active branches; the
\* timer of the thank-you screen keeps firing
InitTablet ==
  /\ InitFeedback
  /\ branches = [b \in BranchIds |-> "active"]

NextTablet ==
  \/ \E url \in {"", "b1"} : pageState = "unmounted" /\ FeedbackOpen(url)
  \/ \E load \in fbLoads, fails \in BOOLEAN : FeedbackGetBranchDone(load, fails)
  \/ \E load \in fbLoads, fails \in BOOLEAN : FeedbackGetBranchesDone(load, fails)
  \/ \E i \in 1..Cardinality(BranchIds) : handleBranchSelect(i)
  \/ FeedbackSubmitStart(5, "")
  \/ \E i \in 1..MaxSubmits, fails \in BOOLEAN : FeedbackSubmitDone(i, fails)
  \/ ThankYouTick
  \/ ThankYouElapsed
  \/ handleReset
  \/ \E b \in BranchIds, active \in BOOLEAN : updateBranch(b, active)

SpecTablet ==
  /\ InitTablet /\ [][NextTablet]_vars
  /\ WF_vars(ThankYouTick) /\ WF_vars(ThankYouElapsed)

\* submitReview called with every kind of input
NextSubmit == \E data \in SubmitInputs : SubmitReview(data)

SpecSubmit == InitFeedback /\ [][NextSubmit]_vars

\* the submissions and date ranges the statistics runs use
StatsForms ==
  {[branchId |-> f[1], rating |-> f[2], contact |-> f[3]] :
     f \in {<<"b1", 5, "">>, <<"b1", 3, "c1">>, <<"b1", 4, "c1">>, <<"b2", 2, "c2">>}}
StatsDateRanges == {<<1, MaxReviews>>, <<2, 3>>}

InitStats == InitResolved /\ route = "overview"

NextStats ==
  \/ \E data \in StatsForms : StatsSubmit(data)
  \/ \E r \in {"overview", "customers"} : Navigate(r)
  \/ \E dr \in StatsDateRanges, fails \in BOOLEAN : DashboardFetch(dr, fails)
  \/ \E dr \in StatsDateRanges, m \in 1..2, fails \in BOOLEAN : CustomersFetch(dr, m, fails)

SpecStats == InitStats /\ [][NextStats]_vars

(* ====================== properties of the session ===================== *)
AdminOps == {"getAllAdmins", "setAdmin", "removeAdmin"}
BranchWriteOps == {"createBranch", "updateBranch", "deleteBranch"}

\* C2: a signed-in identity whose admin-record lookup found no record is
\* shown "access denied" on every /admin route, never an admin page.
C2_NoRecordAccessDenied ==
  (/\ user # Null
   /\ lookupOutcome = "notfound"
   /\ admins[user] = NoRecord
   /\ route \in AdminRoutes)
    => View = "accessDenied"

\* C3: for an identity resolved as anything but Owner the admin management
\* page shows Access Denied, and no getAllAdmins / setAdmin / removeAdmin
\* call is issued by such an identity.
C3_AdminsPageOwnerOnly ==
  /\ (/\ route = "admins"
      /\ ProtectedRoute = "children"
      /\ lookupOutcome \in {"found", "notfound"}
      /\ ~isOwner)
       => View = "accessDenied"
  /\ (lastCall.op \in AdminOps /\ lastCall.lookup \in {"found", "notfound"})
       => lastCall.role = "owner"

\* C4: createBranch, updateBranch and deleteBranch are issued only by an
\* identity whose resolved role is Owner.
C4_BranchWritesOwnerOnly ==
  (lastCall.op \in BranchWriteOps /\ lastCall.lookup \in {"found", "notfound"})
    => lastCall.role = "owner"

\* C6: canAccessBranch is true for every id (existing branch or not) for an
\* Owner, true exactly for the ids of the allowed set for Manager and
\* Viewer (so never for an empty set), and false without admin context.
C6_CanAccessBranch ==
  \A id \in BranchIds :
    /\ adminRole = "owner" => canAccessBranch(id)
    /\ adminRole \in {"manager", "viewer"} =>
         (canAccessBranch(id) <=> id \in allowedBranchIds)
    /\ ~isAdmin => ~canAccessBranch(id)

\* a Manager/Viewer restricted to b1 is granted b1 and refused b2
C6_Witness ==
  /\ adminRole \in {"manager", "viewer"}
  /\ allowedBranchIds = {"b1"}
  /\ canAccessBranch("b1") /\ ~canAccessBranch("b2")

\* the role table of the authorization policy
RoleTable ==
  [manageAdmins |-> {"owner"},
   manageBranches |-> {"owner"},
   exportReports |-> {"owner", "manager"},
   viewReviews |-> {"owner", "manager", "viewer"}]

\* C7: canPerform agrees with the role table for every action and role,
\* and every action is refused without admin context.
C7_CanPerformTable ==
  \A a \in Actions :
    /\ canPerform(a) <=> adminRole \in RoleTable[a]
    /\ ~isAdmin => ~canPerform(a)

\* a Viewer may view reviews and may not export
C7_Witness ==
  /\ isAdmin /\ adminRole = "viewer"
  /\ canPerform("viewReviews") /\ ~canPerform("exportReports")

\* C8: after a lookup that found a record, allowedBranchIds is null exactly
\* when the record's role is owner; for manager and viewer it is the
\* record's branch list, or the empty list when the record has none.
C8_ResolvedBranchIds ==
  lookupOutcome = "found" =>
    /\ isAdmin /\ adminRole = lookupRecord.role
    /\ allowedBranchIds = NullList <=> lookupRecord.role = "owner"
    /\ lookupRecord.role # "owner" =>
         allowedBranchIds = (IF lookupRecord.branchIds = NullList THEN {}
                             ELSE lookupRecord.branchIds)

\* a manager record without a branch list resolved to the empty list
C8_Witness ==
  /\ lookupOutcome = "found"
  /\ lookupRecord = [role |-> "manager", branchIds |-> NullList]
  /\ allowedBranchIds = {}

\* C9: a lookup that failed because the store was unavailable leaves a
\* session state that differs from the one a "no record" lookup leaves
\* (an error is exposed, or the role state is not the unauthorized one).
C9_UnavailableDistinguishable ==
  lookupOutcome = "unavailable" =>
    \/ error # Null
    \/ [isAdmin |-> isAdmin, adminRole |-> adminRole,
        allowedBranchIds |-> allowedBranchIds] # NoAdmin


\* the reviews of a store whose branch is in the set S
Scoped(store, S) == SelectSeq(store, LAMBDA r : r.branchId \in S)

BranchesOf(seq) == {seq[i].branchId : i \in 1..Len(seq)}

\* the page sizes a caller may request, up to and beyond the window
PageSizes == 1..(FetchLimit + 1)

\* C1: for a Manager or Viewer (allowedBranchIds a non-null set S) every
\* review the reviews list page shows, and every review getReviews returns
\* to a caller that passes allowedBranchIds = S as the export loop does,
\* for every page size and cursor, is of a branch in S.
C1_ListingScoped ==
  (isAdmin /\ allowedBranchIds # NullList) =>
    /\ BranchesOf(listReviews) \subseteq allowedBranchIds
    /\ \A ps \in PageSizes, ld \in 0..Len(reviews) :
         BranchesOf(getReviews(reviews,
             [branchId |-> "", dateRange |-> NoRange,
              minRating |-> UndefinedNum, maxRating |-> UndefinedNum,
              pageSize |-> ps, lastDoc |-> ld,
              allowedBranchIds |-> allowedBranchIds]).reviews)
           \subseteq allowedBranchIds

\* C5: for a Manager or Viewer with allowed set S, the per-branch stats,
\* daily stats and recent reviews of the dashboard, and the customer
\* frequency table, are the ones computed from the reviews of the branches
\* in S alone (the store as of the fetch, without the others' reviews).
C5_StatsScoped ==
  (isAdmin /\ allowedBranchIds # NullList) =>
    /\ dashboard.loaded =>
         LET f == DashboardFigures(
                    Scoped(SubSeq(reviews, 1, dashboard.asOf), allowedBranchIds),
                    branches, dashboard.dateRange, allowedBranchIds)
         IN  /\ dashboard.branchStats = f.branchStats
             /\ dashboard.dailyStats = f.dailyStats
             /\ dashboard.recentReviews = f.recentReviews
    /\ customers.loaded =>
         customers.data =
           getCustomerFrequency(
             Scoped(SubSeq(reviews, 1, customers.asOf), allowedBranchIds),
             customers.dateRange, customers.minReviews)

\* the filter combinations, page sizes and cursors getReviews is asked with
HasMoreOptions ==
  [branchId : {""} \cup BranchIds,
   dateRange : {NoRange, <<2, 3>>},
   minRating : {UndefinedNum, 4},
   maxRating : {UndefinedNum, 4},
   pageSize : PageSizes,
   lastDoc : 0..Len(reviews)]

\* C10: for every combination of filters, page size and cursor, getReviews
\* reports hasMore = true exactly when a stored review matching the
\* filters comes after the last returned item (after the cursor, when
\* nothing is returned) in createdAt-descending order.
C10_HasMoreExact ==
  \A opts \in HasMoreOptions :
    LET result == getReviews(reviews, opts)
        last == IF Len(result.reviews) > 0 THEN result.lastDoc ELSE opts.lastDoc
        older == IF last = NoDoc THEN Len(reviews) ELSE last - 1
    IN  result.hasMore <=> \E i \in 1..older : Matches(reviews[i], opts)

\* the pages a caller gets by passing the returned cursor back while
\* hasMore is true, with no filter
RECURSIVE PageThrough(_, _, _)
PageThrough(store, pageSize, cursor) ==
  LET result == getReviews(store,
                  [branchId |-> "", dateRange |-> NoRange,
                   minRating |-> UndefinedNum, maxRating |-> UndefinedNum,
                   pageSize |-> pageSize, lastDoc |-> cursor])
  IN  <<result.reviews>> \o
        (IF result.hasMore THEN PageThrough(store, pageSize, result.lastDoc) ELSE <<>>)

RECURSIVE Flatten(_)
Flatten(pages) == IF pages = <<>> THEN <<>> ELSE pages[1] \o Flatten(Tail(pages))

Range(seq) == {seq[i] : i \in 1..Len(seq)}

\* C11: for an Owner, with no filter and any page size, paging from no
\* cursor while hasMore is true yields every stored review exactly once,
\* newest first, with at most pageSize items per page.
C11_PagingComplete ==
  isOwner =>
    \A ps \in PageSizes :
      LET pages == PageThrough(reviews, ps, NoDoc)
      IN  /\ Flatten(pages) = Reverse(reviews)
          /\ \A i \in 1..Len(pages) : Len(pages[i]) <= ps

\* C12: when an export started by an Owner has finished, and the store
\* held at most ExportLimit reviews when it started, the exported reviews
\* are stored reviews and include every review stored at the start.
C12_ExportComplete ==
  (isOwner /\ exportPc = "done" /\ exportAsOf <= ExportLimit) =>
    /\ Range(exportReviews) \subseteq Range(reviews)
    /\ Range(SubSeq(reviews, 1, exportAsOf)) \subseteq Range(exportReviews)

C14_ReviewsOnlyGrow ==
  [][/\ Len(reviews') >= Len(reviews)
     /\ SubSeq(reviews', 1, Len(reviews)) = reviews]_vars

C14_Witness ==
  /\ Len(reviews) > 0
  /\ lastCall.op = "deleteBranch" /\ pageError = Null
  /\ branches[reviews[1].branchId] = "absent"

\* the submissions the validation has to reject
InvalidSubmission(data) ==
  \/ data.rating < 1 \/ data.rating > 5
  \/ data.branchId \in {"", " "}

ValidationErrors == {"Rating must be between 1 and 5", "Branch ID is required"}

\* C15: a submitReview call whose rating is below 1 or above 5, or whose
\* branchId is empty or blank, ends with a validation error and leaves the
\* store as it was.
C15_InvalidRejected ==
  [][(submitResult' # submitResult /\ InvalidSubmission(submitResult'.data)) =>
       /\ submitResult'.outcome \in ValidationErrors
       /\ reviews' = reviews]_vars

C15_Witness ==
  /\ submitResult.data.rating = 6
  /\ submitResult.outcome = "Rating must be between 1 and 5"
  /\ Len(reviews) > 0

\* an owner record has a null branch list, a manager or viewer record a
\* non-null (possibly empty) one
WellFormed(rec) ==
  IF rec.role = "owner" THEN rec.branchIds = NullList
  ELSE rec.branchIds \in SUBSET BranchIds

\* C16: every admin record an add or edit of the admin management form
\* writes has a null branch list when its role is owner and a non-null
\* (possibly empty) branch list when its role is manager or viewer.
C16_WrittenRecordsWellFormed ==
  [][\A u \in Uids :
       (admins'[u] # admins[u] /\ admins'[u] # NoRecord) => WellFormed(admins'[u])]_vars

C16_Witness ==
  /\ lastCall.op = "setAdmin" /\ pageError = Null
  /\ admins["u2"] = [role |-> "manager", branchIds |-> {}]
  /\ admins["u1"] = [role |-> "owner", branchIds |-> NullList]

\* C17: no step removes the admin record of the signed-in user; asking for
\* it is refused with an error.
C17_NoSelfRemoval ==
  [][(user # Null /\ admins[user] # NoRecord) => admins'[user] # NoRecord]_vars

C17_Witness ==
  /\ pageError = "cannot-delete-self"
  /\ user # Null /\ admins[user] # NoRecord

\* C18: once every fetch of the reviews list has completed, the list shows
\* the result of the most recently issued one: a response of an earlier
\* request has not replaced it.
C18_LastRequestWins ==
  listInflight = {} => listLatest # "overwritten"

\* C19: once a review-list fetch has failed (and none is in flight), the
\* page is in an error state.
C19_FetchErrorShown ==
  (route = "reviews" /\ listInflight = {} /\ listLatest = "failed") => pageError # Null

\* the URL names a branch that is unknown or not active
UrlRejected ==
  fbUrl # "" /\ (fbUrl \notin BranchIds \/ branches[fbUrl] # "active")

DashboardStore == SubSeq(reviews, 1, dashboard.asOf)

\* C21: for a date range whose start is not after its end, the loaded
\* dailyStats has one entry per calendar day from the day of start to the
\* day of end, in ascending order, and an entry's count is 0 when no stored
\* review falls on its day (stated of a fetch that succeeded).
C21_DailyStatsPerDay ==
  (/\ dashboard.loaded /\ dashboard.error = Null
   /\ dashboard.dateRange[1] <= dashboard.dateRange[2]) =>
    LET first == Day(dashboard.dateRange[1])
        last == Day(dashboard.dateRange[2])
        daily == dashboard.dailyStats
    IN  /\ Len(daily) = last - first + 1
        /\ \A i \in 1..Len(daily) :
             /\ daily[i].date = first + i - 1
             /\ (\A k \in 1..Len(DashboardStore) :
                    Day(DashboardStore[k].createdAt) # daily[i].date)
                  => daily[i].count = 0

C21_Witness ==
  /\ dashboard.loaded /\ dashboard.error = Null
  /\ Len(dashboard.dailyStats) >= 2
  /\ \E i \in 1..Len(dashboard.dailyStats) : dashboard.dailyStats[i].count = 0
  /\ \E i \in 1..Len(dashboard.dailyStats) : dashboard.dailyStats[i].count > 0

\* the positions of the stored reviews of branch b inside the date range
InRangeOf(store, b, dateRange) ==
  {k \in 1..Len(store) : store[k].branchId = b /\ InDateRange(store[k], dateRange)}

RECURSIVE RatingTotal(_, _)
RatingTotal(store, S) ==
  IF S = {} THEN 0
  ELSE LET k == CHOOSE x \in S : TRUE
       IN  store[k].rating + RatingTotal(store, S \ {k})

\* t tenths is total/count rounded to one decimal place, halves upwards
HalfUpTenths(t, total, count) ==
  /\ 2 * count * t <= 20 * total + count
  /\ 20 * total + count < 2 * count * (t + 1)

\* C22: for every branch id, getBranchStats holds the number of in-range
\* reviews of that branch and the sum of their ratings (no entry when there
\* is none), and the averageRating the dashboard derives is that sum
\* divided by that number, rounded half-up to one decimal place, or 0 for
\* a branch without in-range review.
C22_BranchStatsExact ==
  /\ \A b \in BranchIds, dr \in StatsDateRanges :
       LET stats == getBranchStats(reviews, dr)
           S == InRangeOf(reviews, b, dr)
       IN  IF S = {} THEN b \notin DOMAIN stats
           ELSE /\ b \in DOMAIN stats
                /\ stats[b].count = Cardinality(S)
                /\ stats[b].totalRating = RatingTotal(reviews, S)
  /\ (dashboard.loaded /\ dashboard.error = Null) =>
       \A i \in 1..Len(dashboard.branchStats) :
         LET row == dashboard.branchStats[i]
             S == InRangeOf(DashboardStore, row.branchId, dashboard.dateRange)
         IN  /\ row.totalReviews = Cardinality(S)
             /\ IF S = {} THEN row.averageRating = 0
                ELSE HalfUpTenths(row.averageRating, RatingTotal(DashboardStore, S),
                                  Cardinality(S))

\* the fixture: ratings 5, 3, 4 for b1 give count 3 and average 4.0
C22_Witness ==
  /\ dashboard.loaded /\ dashboard.error = Null
  /\ \E i \in 1..Len(dashboard.branchStats) :
       /\ dashboard.branchStats[i] =
            [branchId |-> "b1", totalReviews |-> 3, averageRating |-> 40]
       /\ RatingTotal(DashboardStore,
                      InRangeOf(DashboardStore, "b1", dashboard.dateRange)) = 12

Contacts == {"c1", "c2"}

\* the positions of the stored reviews carrying contact c inside the date
\* range (every position when no range is given)
CarryingContact(store, c, dateRange) ==
  {k \in 1..Len(store) :
     /\ store[k].contact = c
     /\ dateRange # NoRange => InDateRange(store[k], dateRange)}

\* C23: the customer-frequency result has an entry for a contact exactly
\* when at least minReviews in-range reviews carry that contact, the
\* entry's count is that number, and no entry stands for the reviews
\* without contact.
C23_CustomerThreshold ==
  \A dr \in StatsDateRanges \cup {NoRange}, m \in 1..3 :
    LET data == getCustomerFrequency(reviews, dr, m)
    IN  /\ \A c \in Contacts :
             LET S == CarryingContact(reviews, c, dr)
                 at == {j \in 1..Len(data) : data[j].contact = c}
             IN  /\ at # {} <=> Cardinality(S) >= m
                 /\ \A j \in at : data[j].count = Cardinality(S)
                 /\ Cardinality(at) <= 1
        /\ \A j \in 1..Len(data) : data[j].contact \in Contacts

\* with minReviews = 2 the table holds c1 (two reviews) and not c2 (one)
C23_Witness ==
  /\ customers.loaded /\ customers.error = Null /\ customers.minReviews = 2
  /\ customers.asOf = Len(reviews)
  /\ Cardinality(CarryingContact(reviews, "c1", customers.dateRange)) = 2
  /\ Cardinality(CarryingContact(reviews, "c2", customers.dateRange)) = 1
  /\ {customers.data[j].contact : j \in 1..Len(customers.data)} = {"c1"}

\* a step in which a submission of the form settles with the review stored
SubmitSucceeds ==
  Len(reviews') = Len(reviews) + 1 /\ Len(fbSubmits') = Len(fbSubmits) - 1

\* a step in which a submission of the form settles with an error
SubmitFails ==
  Len(fbSubmits') < Len(fbSubmits) /\ reviews' = reviews

\* C24: the feedback page enters the thank-you state only in the step in
\* which a submitReview call of the form completes successfully, and when
\* a submission fails the page is in the form state and the form shows an
\* error.
C24_ThankYouOnSuccessOnly ==
  [][/\ (fbState' = "thank-you" /\ fbState # "thank-you") => SubmitSucceeds
     /\ SubmitFails => (fbState' = "form" /\ formError' # Null)]_vars

\* C25: the countdown of the thank-you screen starts at AutoResetSeconds,
\* goes down by one at a time and never below 0, and once the thank-you
\* screen is shown the page eventually is in the form state again with
\* the timer alone acting.
C25_AutoReset ==
  /\ [][/\ (fbState' = "thank-you" /\ fbState # "thank-you") =>
             countdown' = AutoResetSeconds
        /\ (fbState' = "thank-you" /\ fbState = "thank-you") =>
             (countdown' \in {countdown, countdown - 1} /\ countdown' >= 0)]_vars
  /\ (fbState = "thank-you") ~> (fbState = "form")

\* C30: a submission is started only while none is in flight, and every
\* stored review is the one review of one settled submission.
C30_OneSubmissionInFlight ==
  [][/\ Len(fbSubmits') > Len(fbSubmits) => fbSubmits = <<>>
     /\ Len(reviews') > Len(reviews) => SubmitSucceeds]_vars

\* C26: deleting a branch is a soft delete: the step of a deleteBranch call
\* leaves the branch record in the store, with isActive = false.
C26_DeleteIsSoft ==
  [][\A b \in BranchIds :
       (lastCall'.op = "deleteBranch" /\ branches'[b] # branches[b]) =>
          branches'[b] = "inactive"]_vars

\* C27: while nobody is signed in (before the first sign-in and after a
\* sign-out has been processed) isAdmin is false and adminRole is null,
\* also when an admin-record lookup started earlier completes.
C27_SignedOutHasNoRole ==
  user = Null => (~isAdmin /\ adminRole = Null)

\* the admin records that carry the owner role
OwnerRecords(store) == {u \in Uids : store[u].role = "owner"}

\* C28: an add, edit or remove made on the admin management page by a
\* signed-in owner (the record and the resolved role state both say owner),
\* in a store that holds an owner record, leaves at least
\* one owner record in the store
C28_OwnerRemains ==
  [][(/\ OwnerRecords(admins) # {}
      /\ user \in OwnerRecords(admins)
      /\ isAdmin /\ adminRole = "owner") =>
        OwnerRecords(admins') # {}]_vars

\* the paging state of the reviews list is well formed
PagingShape == page >= 1 /\ Len(pageHistory) = page /\ pageHistory[1] = NoDoc

IsPrefix(s, t) == Len(s) <= Len(t) /\ SubSeq(t, 1, Len(s)) = s

\* the request issued last carries the cursor stored for the current page
LatestCursorIsCurrent ==
  \E req \in listInflight : req.latest /\ req.cursor = pageHistory[page]

\* C29: in the reviews list page is at least 1 and pageHistory has exactly
\* page entries, the first of them the null cursor; Next, Previous and a
\* filter change only extend or cut pageHistory at its end, and each of them
\* requests with the cursor stored for the page it goes to, so Previous from
\* page k requests with the cursor that produced page k-1
C29_PageHistory ==
  /\ PagingShape
  /\ [][/\ PagingShape'
        /\ IsPrefix(pageHistory, pageHistory') \/ IsPrefix(pageHistory', pageHistory)
        /\ (route = "reviews" /\ route' = "reviews"
              /\ (page' # page \/ listFilters' # listFilters)) =>
               LatestCursorIsCurrent']_vars

\* Previous has just gone back from page 3 to page 2: the list still shows
\* page 3, and the request in flight carries the cursor stored for page 2
C29_Witness ==
  /\ route = "reviews" /\ page = 2 /\ PagingShape
  /\ listLoading /\ Cardinality(listInflight) = 1
  /\ listLastDoc # NoDoc /\ listLastDoc # pageHistory[2]
  /\ LatestCursorIsCurrent
====
